---- MODULE Spec2Model ----
(***************************************************************************)
(* Model of bitlib.h: bit operations over one 64-bit unsigned word.        *)
(*                                                                         *)
(* Representation.  A value of type <bit> is the set of the 1-based        *)
(* positions of its 1-bits (position 1 = LSB, position BIT_SIZE = MSB), so *)
(* 0 is {} and 0xF0 is {5,6,7,8}.  | & ^ ~ are union, intersection,        *)
(* symmetric difference and complement in 1..BIT_SIZE.                     *)
(*                                                                         *)
(* A size_t is an integer; a size_t that wrapped below zero (the value     *)
(* 2^64 - k) is written -k, so that "BIT_SIZE - n" is plain subtraction    *)
(* and an in-range shift amount is one in 0..BIT_SIZE-1.                   *)
(*                                                                         *)
(* Undefined behaviour.  b << n and b >> n with n >= BIT_SIZE are          *)
(* undefined in C: every operator built on a shift returns the SET of the  *)
(* values the call may return, and an undefined shift may return any       *)
(* register.  The heap cell one past a malloc'ed block does not belong to  *)
(* the block: what a later read finds there is any character sequence.     *)
(***************************************************************************)
EXTENDS Integers, Sequences, FiniteSets, TLC

\* ----------------------------------------------------------------- bounds
\* How many of SamplePos are used to build the sample registers.
MaxSampleBits == 4
\* How far beyond BIT_SIZE an index argument may lie.
MaxOver == 5
\* Longest input string handed to the parsers.
MaxStrLen == 3
\* How many characters following the block a read past its end may find.
MaxTail == 1

\* ------------------------------------------------------------- the type
\* bitlib.h:25  const size_t BIT_SIZE = sizeof(bit) * 8, bit = unsigned long long
BIT_SIZE == 64

Positions == 1..BIT_SIZE

SamplePos == <<1, 64, 5, 8, 2, 63, 33, 32>>

SampleBits == {SamplePos[k] : k \in 1..MaxSampleBits}

AllOnes == Positions

\* The registers the operations are called with, and the values an undefined
\* shift may produce.
Registers == (SUBSET SampleBits) \cup {{5, 6, 7, 8}, AllOnes}

\* Index arguments (size_t n).
Indices == 0..(BIT_SIZE + MaxOver)

\* Section bounds (size_t from, to).
SectionIdx == 0..BIT_SIZE

Chars == {"0", "1", "x"}

RECURSIVE SeqsUpTo(_)
SeqsUpTo(k) ==
    IF k = 0 THEN {<< >>}
    ELSE LET shorter == SeqsUpTo(k - 1)
         IN  shorter \cup {Append(t, c) : t \in {u \in shorter : Len(u) = k - 1}, c \in Chars}

Strings == SeqsUpTo(MaxStrLen)

Tails == SeqsUpTo(MaxTail)

\* The one element of a singleton set of outcomes.
Only(S) == CHOOSE x \in S : TRUE

\* ------------------------------------------------------ shift primitives
\* The amount is defined for the C shift operators.
ShiftDefined(n) == n \in 0..(BIT_SIZE - 1)

\* bit Bit_shiftLeft(bit b, size_t n) { return b << n; }
Bit_shiftLeft(b, n) ==
    IF ShiftDefined(n) THEN {{p + n : p \in b} \cap Positions} ELSE Registers

\* bit Bit_shiftRight(bit b, size_t n) { return b >> n; }
Bit_shiftRight(b, n) ==
    IF ShiftDefined(n) THEN {{p - n : p \in b} \cap Positions} ELSE Registers

Bit_OR(b1, b2) == b1 \cup b2

Bit_XOR(b1, b2) == (b1 \ b2) \cup (b2 \ b1)

Bit_AND(b1, b2) == b1 \cap b2

\* ~b
Bit_toggleAll(b) == Positions \ b

\* ------------------------------------------------------- index accessors
\* Bit_mask1 without the decrement of n: Bit_shiftLeft(1, n).
Bit_mask1_noDecrement(n) ==
    LET c == IF n < 1 THEN 1 ELSE IF n > BIT_SIZE THEN BIT_SIZE ELSE n
    IN  Bit_shiftLeft({1}, c)

\* n = (n < 1 ? 1 : n > BIT_SIZE ? BIT_SIZE : n); return Bit_shiftLeft(1, --n);
Bit_mask1(n) ==
    LET c == IF n < 1 THEN 1 ELSE IF n > BIT_SIZE THEN BIT_SIZE ELSE n
    IN  Bit_shiftLeft({1}, c - 1)

Bit_turnOn(b, n) == {Bit_OR(b, m) : m \in Bit_mask1(n)}

Bit_turnOff(b, n) == {Bit_AND(b, Bit_toggleAll(m)) : m \in Bit_mask1(n)}

Bit_toggle(b, n) == {Bit_XOR(b, m) : m \in Bit_mask1(n)}

\* bool: false = 0, true = 1
Bit_get(b, n) == {IF Bit_AND(b, m) # {} THEN 1 ELSE 0 : m \in Bit_mask1(n)}

\* ----------------------------------------------------------------- filters
\* The amount both shifts of Bit_filterLeft / Bit_filterRight are called with.
FilterShiftAmount(n) == BIT_SIZE - n

Bit_filterLeft(b, n) ==
    UNION {Bit_shiftLeft(x, FilterShiftAmount(n)) : x \in Bit_shiftRight(b, FilterShiftAmount(n))}

Bit_filterRight(b, n) ==
    UNION {Bit_shiftRight(x, FilterShiftAmount(n)) : x \in Bit_shiftLeft(b, FilterShiftAmount(n))}

Bit_filterSectionIncl(b, from, to) ==
    UNION {Bit_filterLeft(x, BIT_SIZE - from) : x \in Bit_filterRight(b, to)}

Bit_filterSectionExcl(b, from, to) ==
    {Bit_toggleAll(x) : x \in Bit_filterSectionIncl(b, from, to)}

Bit_getSection(b, from, to) ==
    UNION {Bit_shiftRight(x, from) : x \in Bit_filterSectionIncl(b, from, to)}

\* ------------------------------------------------------------- shift-in
\* add is a bool (0 or 1)
Bit_addRight(b, add) ==
    Bit_OR(Only(Bit_shiftLeft(b, 1)), IF add = 1 THEN {1} ELSE {})

Bit_addBitsLeft(b, left, n) ==
    {Bit_OR(x, y) : x \in Bit_shiftRight(b, n),
                    y \in UNION {Bit_shiftLeft(f, BIT_SIZE - n) : f \in Bit_filterRight(left, n)}}

Bit_addBitsRight(b, right, n) ==
    {Bit_OR(x, y) : x \in Bit_shiftLeft(b, n), y \in Bit_filterRight(right, n)}

\* bool r = Bit_get(*b, 1); *b >>= 1; return r;   (r: returned, b: *b afterwards)
Bit_getAndRemoveRight(b) ==
    [r |-> Only(Bit_get(b, 1)), b |-> {p - 1 : p \in b} \cap Positions]

\* The body of  while (i--) rev = Bit_addRight(rev, Bit_getAndRemoveRight(&b));
\* on the locals st = [i, rev, b].
ReverseBody(st) ==
    LET g == Bit_getAndRemoveRight(st.b)
    IN  [i |-> st.i - 1, rev |-> Bit_addRight(st.rev, g.r), b |-> g.b]

RECURSIVE ReverseLoop(_)
ReverseLoop(st) == IF st.i = 0 THEN st.rev ELSE ReverseLoop(ReverseBody(st))

\* size_t i = BIT_SIZE; bit rev = 0; ...; return rev;
Bit_reverse(b) == ReverseLoop([i |-> BIT_SIZE, rev |-> {}, b |-> b])

\* ---------------------------------------------------------------- rotation
Bit_rotateLeft(b, n) ==
    UNION {Bit_addBitsRight(b, sec, n) : sec \in Bit_getSection(b, BIT_SIZE - n, BIT_SIZE)}

Bit_rotateRight(b, n) ==
    UNION {Bit_addBitsLeft(b, sec, n) : sec \in Bit_getSection(b, 0, n)}

\* ----------------------------------------------------------------- parsing
\* The body of  while (s[i] != '\0') { if (s[i] == '1' || s[i] == '0')
\* b = Bit_addRight(b, s[i] - '0'); i++; }  on the locals st = [i, b]; s[i] of the
\* C string is str[i + 1].
FromStringBody(str, st) ==
    LET c == str[st.i + 1]
    IN  [i |-> st.i + 1,
         b |-> IF c = "1" \/ c = "0" THEN Bit_addRight(st.b, IF c = "1" THEN 1 ELSE 0)
               ELSE st.b]

RECURSIVE FromStringLoop(_, _)
FromStringLoop(str, st) ==
    IF st.i >= Len(str) THEN st.b ELSE FromStringLoop(str, FromStringBody(str, st))

\* bit b = 0; size_t i = 0; ...; return b;
Bit_fromStringMSB(str) == FromStringLoop(str, [i |-> 0, b |-> {}])

Bit_fromStringLSB(str) == Bit_reverse(Bit_fromStringMSB(str))

\* ------------------------------------------------------------------ state
VARIABLES
    op,       \* the call last made, or the loop a call is in
    b,        \* the caller's register, passed by value
    n,        \* size_t n
    from,     \* size_t from
    to,       \* size_t to
    s,        \* char* s handed to a parser
    res,      \* a returned bit
    val,      \* a returned size_t or bool
    amt,      \* the amount Bit_filterLeft / Bit_filterRight shifted by
    lb,       \* the callee's copy of b, consumed by the loops
    i,        \* the loop counter
    steps,    \* calls of Bit_getAndRemoveRight made by the running loop
    mem,      \* the cells s[k] stored to by Bit_toStringBinMSB, k |-> character
    written,  \* the indexes of s stored to
    alloc,    \* the size of the malloc'ed block, in chars
    tail      \* what a read past the block found before a '\0'

vars == <<op, b, n, from, to, s, res, val, amt, lb, i, steps, mem, written, alloc, tail>>

NUL == "NUL"

\* No cell stored to yet: malloc leaves the block uninitialised.
EmptyMem == << >>

\* s[k] as a reader finds it.
Cell(k) == IF k \in DOMAIN mem THEN mem[k] ELSE "?"

\* Each behaviour is one call (or one chain of calls) made from the initial state.
Idle == op = "init"

Args(o, bb, nn, ff, tt, ss) ==
    /\ op' = o /\ b' = bb /\ n' = nn /\ from' = ff /\ to' = tt /\ s' = ss

NoLoop ==
    /\ lb' = {} /\ i' = 0 /\ steps' = 0
    /\ mem' = EmptyMem /\ written' = {} /\ alloc' = 0 /\ tail' = << >>

Init ==
    /\ op = "init" /\ b = {} /\ n = 0 /\ from = 0 /\ to = 0 /\ s = << >>
    /\ res = {} /\ val = 0 /\ amt = 0
    /\ lb = {} /\ i = 0 /\ steps = 0
    /\ mem = EmptyMem /\ written = {} /\ alloc = 0 /\ tail = << >>

\* ------------------------------------------------- calls of pure functions
CallMask1 ==
    /\ Idle
    /\ \E nn \in Indices :
        /\ Args("mask1", {}, nn, 0, 0, << >>)
        /\ res' \in Bit_mask1(nn)
    /\ val' = 0 /\ amt' = 0 /\ NoLoop

CallTurnOn ==
    /\ Idle
    /\ \E bb \in Registers, nn \in Indices :
        /\ Args("turnOn", bb, nn, 0, 0, << >>)
        /\ res' \in Bit_turnOn(bb, nn)
    /\ val' = 0 /\ amt' = 0 /\ NoLoop

CallTurnOff ==
    /\ Idle
    /\ \E bb \in Registers, nn \in Indices :
        /\ Args("turnOff", bb, nn, 0, 0, << >>)
        /\ res' \in Bit_turnOff(bb, nn)
    /\ val' = 0 /\ amt' = 0 /\ NoLoop

CallToggle ==
    /\ Idle
    /\ \E bb \in Registers, nn \in Indices :
        /\ Args("toggle", bb, nn, 0, 0, << >>)
        /\ res' \in Bit_toggle(bb, nn)
    /\ val' = 0 /\ amt' = 0 /\ NoLoop

CallGet ==
    /\ Idle
    /\ \E bb \in Registers, nn \in Indices :
        /\ Args("get", bb, nn, 0, 0, << >>)
        /\ val' \in Bit_get(bb, nn)
    /\ res' = {} /\ amt' = 0 /\ NoLoop

CallFilterLeft ==
    /\ Idle
    /\ \E bb \in Registers, nn \in Indices :
        /\ Args("filterLeft", bb, nn, 0, 0, << >>)
        /\ res' \in Bit_filterLeft(bb, nn)
        /\ amt' = FilterShiftAmount(nn)
    /\ val' = 0 /\ NoLoop

CallFilterRight ==
    /\ Idle
    /\ \E bb \in Registers, nn \in Indices :
        /\ Args("filterRight", bb, nn, 0, 0, << >>)
        /\ res' \in Bit_filterRight(bb, nn)
        /\ amt' = FilterShiftAmount(nn)
    /\ val' = 0 /\ NoLoop

CallFilterSectionIncl ==
    /\ Idle
    /\ \E bb \in Registers, ff \in SectionIdx, tt \in SectionIdx :
        /\ ff <= tt
        /\ Args("filterSectionIncl", bb, 0, ff, tt, << >>)
        /\ res' \in Bit_filterSectionIncl(bb, ff, tt)
    /\ val' = 0 /\ amt' = 0 /\ NoLoop

CallFilterSectionExcl ==
    /\ Idle
    /\ \E bb \in Registers, ff \in SectionIdx, tt \in SectionIdx :
        /\ ff <= tt
        /\ Args("filterSectionExcl", bb, 0, ff, tt, << >>)
        /\ res' \in Bit_filterSectionExcl(bb, ff, tt)
    /\ val' = 0 /\ amt' = 0 /\ NoLoop

CallGetSection ==
    /\ Idle
    /\ \E bb \in Registers, ff \in SectionIdx, tt \in SectionIdx :
        /\ ff <= tt
        /\ Args("getSection", bb, 0, ff, tt, << >>)
        /\ res' \in Bit_getSection(bb, ff, tt)
    /\ val' = 0 /\ amt' = 0 /\ NoLoop

\* r = Bit_rotateRight(b, n)
CallRotateRight ==
    /\ Idle
    /\ \E bb \in Registers, nn \in SectionIdx :
        /\ Args("rotateRight", bb, nn, 0, 0, << >>)
        /\ res' \in Bit_rotateRight(bb, nn)
    /\ val' = 0 /\ amt' = 0 /\ NoLoop

\* r = Bit_rotateLeft(b, n)
CallRotateLeft ==
    /\ Idle
    /\ \E bb \in Registers, nn \in SectionIdx :
        /\ Args("rotateLeft", bb, nn, 0, 0, << >>)
        /\ res' \in Bit_rotateLeft(bb, nn)
    /\ val' = 0 /\ amt' = 0 /\ NoLoop

\* r = Bit_rotateLeft(r, n), r being Bit_rotateRight(b, n)
RotateBackLeft ==
    /\ op = "rotateRight"
    /\ op' = "rotateLeft_of_rotateRight"
    /\ res' \in Bit_rotateLeft(res, n)
    /\ UNCHANGED <<b, n, from, to, s, val, amt, lb, i, steps, mem, written, alloc, tail>>

\* r = Bit_rotateRight(r, n), r being Bit_rotateLeft(b, n)
RotateBackRight ==
    /\ op = "rotateLeft"
    /\ op' = "rotateRight_of_rotateLeft"
    /\ res' \in Bit_rotateRight(res, n)
    /\ UNCHANGED <<b, n, from, to, s, val, amt, lb, i, steps, mem, written, alloc, tail>>

CallFromStringMSB ==
    /\ Idle
    /\ \E ss \in Strings :
        /\ Args("fromStringMSB", {}, 0, 0, 0, ss)
        /\ res' = Bit_fromStringMSB(ss)
    /\ val' = 0 /\ amt' = 0 /\ NoLoop

CallFromStringLSB ==
    /\ Idle
    /\ \E ss \in Strings :
        /\ Args("fromStringLSB", {}, 0, 0, 0, ss)
        /\ res' = Bit_fromStringLSB(ss)
    /\ val' = 0 /\ amt' = 0 /\ NoLoop

\* ------------------------------------------------------------ Bit_getFirst1
\* size_t i = 0;
Bit_getFirst1_initZero(x) == 0

\* size_t i = (b > 0);
Bit_getFirst1_init(x) == IF x # {} THEN 1 ELSE 0

CallGetFirst1 ==
    /\ Idle
    /\ \E bb \in Registers :
        /\ Args("getFirst1", bb, 0, 0, 0, << >>)
        /\ lb' = bb
        /\ i' = Bit_getFirst1_init(bb)
    /\ steps' = 0
    /\ res' = {} /\ val' = 0 /\ amt' = 0
    /\ mem' = EmptyMem /\ written' = {} /\ alloc' = 0 /\ tail' = << >>

\* One evaluation of  while (b && !Bit_getAndRemoveRight(&b)) i++;  with b != 0
GetFirst1Step ==
    /\ op = "getFirst1"
    /\ lb # {}
    /\ LET g == Bit_getAndRemoveRight(lb)
       IN  /\ lb' = g.b
           /\ steps' = steps + 1
           /\ IF g.r = 0
              THEN /\ i' = i + 1
                   /\ UNCHANGED <<op, val>>
              ELSE /\ op' = "getFirst1_ret"
                   /\ val' = i
                   /\ UNCHANGED i
    /\ UNCHANGED <<b, n, from, to, s, res, amt, mem, written, alloc, tail>>

\* The loop condition with b == 0; return i;
GetFirst1Exit ==
    /\ op = "getFirst1"
    /\ lb = {}
    /\ op' = "getFirst1_ret"
    /\ val' = i
    /\ UNCHANGED <<b, n, from, to, s, res, amt, lb, i, steps, mem, written, alloc, tail>>

\* ------------------------------------------------------- Bit_toStringBinMSB
\* size_t i = BIT_SIZE; char* s = malloc(i * sizeof(char)); s[i] = '\0';
ToStringEnter(o, bb, local) ==
    /\ Args(o, bb, 0, 0, 0, << >>)
    /\ lb' = local
    /\ i' = BIT_SIZE
    /\ alloc' = BIT_SIZE
    /\ mem' = (BIT_SIZE :> NUL)
    /\ written' = {BIT_SIZE}
    /\ steps' = 0 /\ tail' = << >>
    /\ res' = {} /\ val' = 0 /\ amt' = 0

CallToStringBinMSB ==
    /\ Idle
    /\ \E bb \in Registers : ToStringEnter("toStringBinMSB", bb, bb)

\* return Bit_toStringBinMSB(Bit_reverse(b));
CallToStringBinLSB ==
    /\ Idle
    /\ \E bb \in Registers : ToStringEnter("toStringBinLSB", bb, Bit_reverse(bb))

\* while (i--) s[i] = (Bit_getAndRemoveRight(&b) ? '1' : '0');
ToStringStep ==
    /\ op \in {"toStringBinMSB", "toStringBinLSB"}
    /\ i # 0
    /\ LET g == Bit_getAndRemoveRight(lb)
       IN  /\ i' = i - 1
           /\ lb' = g.b
           /\ mem' = ((i - 1) :> (IF g.r = 1 THEN "1" ELSE "0")) @@ mem
           /\ written' = written \cup {i - 1}
           /\ steps' = steps + 1
    /\ UNCHANGED <<op, b, n, from, to, s, res, val, amt, alloc, tail>>

\* return s;
ToStringReturn ==
    /\ op \in {"toStringBinMSB", "toStringBinLSB"}
    /\ i = 0
    /\ op' = IF op = "toStringBinMSB" THEN "toStringBinMSB_ret" ELSE "toStringBinLSB_ret"
    /\ UNCHANGED <<b, n, from, to, s, res, val, amt, lb, i, steps, mem, written, alloc, tail>>

\* The characters a reader of s meets before the first '\0': the cells of the
\* block, then, the block holding no '\0', what lies behind it (tl).
RECURSIVE UpToNul(_)
UpToNul(str) ==
    IF str = << >> \/ Head(str) = NUL THEN << >>
    ELSE <<Head(str)>> \o UpToNul(Tail(str))

CString(tl) ==
    LET block == [k \in 1..alloc |-> Cell(k - 1)]
    IN  IF \E k \in 1..alloc : block[k] = NUL THEN UpToNul(block) ELSE block \o tl

\* r = Bit_fromStringMSB(s), s being Bit_toStringBinMSB(b)
FromStringMSBBack ==
    /\ op = "toStringBinMSB_ret"
    /\ \E tl \in Tails :
        /\ tail' = tl
        /\ s' = CString(tl)
        /\ res' = Bit_fromStringMSB(CString(tl))
    /\ op' = "fromStringMSB_of_toStringBinMSB"
    /\ UNCHANGED <<b, n, from, to, val, amt, lb, i, steps, mem, written, alloc>>

\* r = Bit_fromStringLSB(s), s being Bit_toStringBinLSB(b)
FromStringLSBBack ==
    /\ op = "toStringBinLSB_ret"
    /\ \E tl \in Tails :
        /\ tail' = tl
        /\ s' = CString(tl)
        /\ res' = Bit_fromStringLSB(CString(tl))
    /\ op' = "fromStringLSB_of_toStringBinLSB"
    /\ UNCHANGED <<b, n, from, to, val, amt, lb, i, steps, mem, written, alloc>>

\* ------------------------------------------------------------ specification
Next ==
    \/ CallMask1
    \/ CallTurnOn
    \/ CallTurnOff
    \/ CallToggle
    \/ CallGet
    \/ CallFilterLeft
    \/ CallFilterRight
    \/ CallFilterSectionIncl
    \/ CallFilterSectionExcl
    \/ CallGetSection
    \/ CallRotateRight
    \/ CallRotateLeft
    \/ RotateBackLeft
    \/ RotateBackRight
    \/ CallFromStringMSB
    \/ CallFromStringLSB
    \/ CallGetFirst1
    \/ GetFirst1Step
    \/ GetFirst1Exit
    \/ CallToStringBinMSB
    \/ CallToStringBinLSB
    \/ ToStringStep
    \/ ToStringReturn
    \/ FromStringMSBBack
    \/ FromStringLSBBack

Spec == Init /\ [][Next]_vars

\* ------------------------------------------------------------------ claims
Min2(x, y) == IF x < y THEN x ELSE y

Max2(x, y) == IF x > y THEN x ELSE y

\* The numeric value of a register whose 1-bits all lie below position 31.
RECURSIVE Value(_)
Value(x) ==
    IF x = {} THEN 0
    ELSE LET p == CHOOSE q \in x : TRUE IN 2 ^ (p - 1) + Value(x \ {p})

InSection == 1 <= from /\ from <= to /\ to <= BIT_SIZE

\* C1: for 1 <= from <= to <= N, getSection(b, from, to) is the bits of the
\* inclusive 1-based range [from, to] moved to the LSB end,
\* floor(b / 2^(from-1)) mod 2^(to-from+1); getSection(0b11110000, 5, 8) = 15.
C1_GetSectionInclusive ==
    (op = "getSection" /\ InSection) =>
        /\ res = {p - (from - 1) : p \in {q \in b : from <= q /\ q <= to}}
        /\ (b = {5, 6, 7, 8} /\ from = 5 /\ to = 8) => Value(res) = 15

\* What Bit_getSection returns where no shift is undefined: the bits at
\* positions from+1 .. to, moved down by from.
GetSectionObserved ==
    (op = "getSection" /\ to >= 1 /\ from < BIT_SIZE) =>
        res = {p - from : p \in {q \in b : from < q /\ q <= to}}

\* C2: for 1 <= from <= to <= N, filterSectionIncl(b, from, to) keeps exactly
\* the bits of b at positions from..to, both endpoints included, and zeroes
\* every other bit.
C2_FilterSectionInclKeepsRange ==
    (op = "filterSectionIncl" /\ InSection) =>
        res = {q \in b : from <= q /\ q <= to}

\* What Bit_filterSectionIncl returns where no shift is undefined: the bits at
\* positions from+1 .. to.
FilterSectionInclObserved ==
    (op = "filterSectionIncl" /\ to >= 1 /\ from < BIT_SIZE) =>
        res = {q \in b : from < q /\ q <= to}

\* C3: for 1 <= from <= to <= N, filterSectionExcl(b, from, to) is b with the
\* bits from..to zeroed and every other bit of b unchanged; with
\* filterSectionIncl it partitions b (OR gives b, AND gives 0).
C3_FilterSectionExclZeroesRange ==
    (op = "filterSectionExcl" /\ InSection) =>
        /\ res = {q \in b : q < from \/ q > to}
        /\ \A incl \in Bit_filterSectionIncl(b, from, to) :
              Bit_OR(res, incl) = b /\ Bit_AND(res, incl) = {}

\* C4: for 0 <= n <= N, rotateLeft(rotateRight(b, n), n) = b and
\* rotateRight(rotateLeft(b, n), n) = b, the endpoints n = 0 and n = N included.
C4_RotateRoundTrip ==
    (op \in {"rotateLeft_of_rotateRight", "rotateRight_of_rotateLeft"}
        /\ 0 <= n /\ n <= BIT_SIZE) => res = b

\* The round trip where no shift is undefined: 1 <= n <= N - 1.
RotateRoundTripObserved ==
    (op \in {"rotateLeft_of_rotateRight", "rotateRight_of_rotateLeft"}
        /\ 1 <= n /\ n <= BIT_SIZE - 1) => res = b

IsBinChar(c) == c = "0" \/ c = "1"

\* C5: fromStringLSB(s) takes the first character as the LSB: with k <= N
\* recognised characters, bit i of the result is the i-th recognised
\* character for 1 <= i <= k and every bit above k is 0
\* (fromStringLSB("100") = 1).
C5_FromStringLSBFirstCharIsLSB ==
    op = "fromStringLSB" =>
        LET rec == SelectSeq(s, IsBinChar)
        IN  Len(rec) <= BIT_SIZE => res = {k \in 1..Len(rec) : rec[k] = "1"}

\* What Bit_fromStringLSB returns: the k recognised characters end at the top,
\* the i-th of them at position N - k + i.
FromStringLSBObserved ==
    op = "fromStringLSB" =>
        LET rec == SelectSeq(s, IsBinChar)
        IN  Len(rec) <= BIT_SIZE =>
              res = {BIT_SIZE - Len(rec) + k : k \in {j \in 1..Len(rec) : rec[j] = "1"}}

\* C6: parsing the string the matching formatter produced returns b:
\* fromStringMSB(toStringBinMSB(b)) = b and fromStringLSB(toStringBinLSB(b)) = b.
C6_StringRoundTrip ==
    op \in {"fromStringMSB_of_toStringBinMSB", "fromStringLSB_of_toStringBinLSB"} =>
        res = b

\* The round trip when the '\0' stored behind the block is still there when
\* the parser reads it.
StringRoundTripObserved ==
    (op \in {"fromStringMSB_of_toStringBinMSB", "fromStringLSB_of_toStringBinLSB"}
        /\ tail = << >>) => res = b

\* C7: for every n >= 0, filterLeft(b, n) and filterRight(b, n) keep the n
\* most / least significant bits, and the amount N - n they shift by never
\* leaves [0, N]: n = 0 yields 0 and n > N yields b unchanged.
C7_FilterShiftAmountClamped ==
    /\ op \in {"filterLeft", "filterRight"} => amt \in 0..BIT_SIZE
    /\ op = "filterLeft" =>
          res = {q \in b : q > BIT_SIZE - Min2(n, BIT_SIZE)}
    /\ op = "filterRight" =>
          res = {q \in b : q <= Min2(n, BIT_SIZE)}

\* What the filters return where no shift is undefined: 1 <= n <= N.
FilterObserved ==
    /\ (op = "filterLeft" /\ 1 <= n /\ n <= BIT_SIZE) => res = {q \in b : q > BIT_SIZE - n}
    /\ (op = "filterRight" /\ 1 <= n /\ n <= BIT_SIZE) => res = {q \in b : q <= n}

\* C8: mask1(n) has exactly one bit set, at position min(max(n, 1), N), so
\* mask1(0) = mask1(1) and mask1(N+5) = mask1(N); turnOn, turnOff, toggle and
\* get with an out-of-range index act on the nearest boundary bit.
C8_Mask1Clamps ==
    LET p == Min2(Max2(n, 1), BIT_SIZE)
    IN  /\ op = "mask1" => (Cardinality(res) = 1 /\ res = {p})
        /\ op = "turnOn" => res = b \cup {p}
        /\ op = "turnOff" => res = b \ {p}
        /\ op = "toggle" => res = IF p \in b THEN b \ {p} ELSE b \cup {p}
        /\ op = "get" => val = IF p \in b THEN 1 ELSE 0

\* An index beyond N was clamped to the MSB: Bit_turnOn set bit N of a
\* register that had it clear.
C8_Witness ==
    op = "turnOn" /\ n = BIT_SIZE + MaxOver /\ BIT_SIZE \notin b /\ BIT_SIZE \in res

\* C9: getFirst1(b) is the 1-based index of the lowest set bit of b, 0 when
\* b = 0; the loop stops at the first 1 after at most N calls of
\* getAndRemoveRight and works on a copy, the caller's register keeping its bits.
C9_GetFirst1Lowest ==
    /\ op \in {"getFirst1", "getFirst1_ret"} =>
          /\ steps <= BIT_SIZE
          /\ lb = {q - steps : q \in b} \cap Positions
    /\ op = "getFirst1_ret" =>
          IF b = {} THEN val = 0 /\ steps = 0
          ELSE /\ val \in b
               /\ \A q \in b : val <= q
               /\ steps = val

\* Bit_getFirst1 returned 5 for a register with bits 5 and 8 set.
C9_Witness ==
    op = "getFirst1_ret" /\ val = 5 /\ {5, 8} \subseteq b /\ steps = 5

\* C10: every index Bit_toStringBinMSB stores to, the N characters and the
\* '\0', lies inside the allocated block: written is a subset of 0..alloc-1.
C10_WritesInsideBlock ==
    \A k \in written : 0 <= k /\ k <= alloc - 1

====
